---- MODULE Spec2Model ----
(***************************************************************************)
(* Model of src/main.py: a daily stock-news pipeline                       *)
(*   fetch_rss_headlines -> identify_priority_stories ->                   *)
(*   compile_news_brief (scrape_article_content) ->                        *)
(*   generate_discord_summary -> send_to_discord.                          *)
(*                                                                         *)
(* Python strings are modelled as run-length encoded character sequences:  *)
(* a string is a sequence of runs <<c, n>> (character c repeated n >= 1    *)
(* times) in which adjacent runs carry different characters, so that two   *)
(* strings are equal exactly when their encodings are equal.  This keeps   *)
(* the program's own limits (1900 and 5000 characters) at their real       *)
(* values.                                                                 *)
(***************************************************************************)
EXTENDS Integers, Sequences, FiniteSets, TLC

VARIABLES
    pc,             \* position of main(), "done" when it has returned and
                    \* the name of the exception when one has ended the run
    webhook,        \* DISCORD_WEBHOOK_URL: "unset" or "url"
    feeds,          \* what feedparser.parse returns for each ticker
    web,            \* what newspaper extracts for the articles of each ticker
    headline_map,   \* the catalog, a dict kept in insertion order
    priority_ids,   \* result of identify_priority_stories
    context_data,   \* result of compile_news_brief
    final_summary,  \* the brief handed to send_to_discord
    messages,       \* send_to_discord's list of messages
    posts,          \* log of requests.post calls: [url, content]
    llm_calls,      \* log of generate_content calls: [call, response]
    scrapes,        \* log of the links handed to scrape_article_content
    article,        \* scrape_article_content alone: the extraction outcome
    content         \* scrape_article_content alone: the value returned

vars == <<pc, webhook, feeds, web, headline_map, priority_ids, context_data,
          final_summary, messages, posts, llm_calls, scrapes, article, content>>

(***************************************************************************)
(* Python str operations on run-length encoded strings                     *)
(***************************************************************************)

\* len(s)
RECURSIVE StrLen(_)
StrLen(s) ==
    IF s = <<>> THEN 0 ELSE s[1][2] + StrLen(Tail(s))

\* a + b
Cat(a, b) ==
    IF a = <<>> THEN b
    ELSE IF b = <<>> THEN a
    ELSE IF a[Len(a)][1] = b[1][1]
         THEN SubSeq(a, 1, Len(a) - 1)
              \o <<<<b[1][1], a[Len(a)][2] + b[1][2]>>>>
              \o Tail(b)
         ELSE a \o b

\* a string literal, given character by character
RECURSIVE Lit(_)
Lit(chars) ==
    IF chars = <<>> THEN <<>>
    ELSE Cat(<<<<Head(chars), 1>>>>, Lit(Tail(chars)))

\* s[:k] for k >= 0
RECURSIVE Take(_, _)
Take(s, k) ==
    IF s = <<>> \/ k <= 0 THEN <<>>
    ELSE IF s[1][2] >= k THEN <<<<s[1][1], k>>>>
    ELSE <<s[1]>> \o Take(Tail(s), k - s[1][2])

\* s[k:] for k >= 0
RECURSIVE Drop(_, _)
Drop(s, k) ==
    IF s = <<>> \/ k <= 0 THEN s
    ELSE IF s[1][2] > k THEN <<<<s[1][1], s[1][2] - k>>>> \o Tail(s)
    ELSE Drop(Tail(s), k - s[1][2])

\* s.rfind(ch, 0, end): the highest index below end holding ch, or -1
RECURSIVE RFindFrom(_, _, _, _)
RFindFrom(s, ch, end, off) ==
    IF s = <<>> \/ off >= end THEN -1
    ELSE LET rest == RFindFrom(Tail(s), ch, end, off + s[1][2])
             stop == IF off + s[1][2] < end THEN off + s[1][2] ELSE end
         IN  IF rest # -1 THEN rest
             ELSE IF s[1][1] = ch THEN stop - 1
             ELSE -1

RFind(s, ch, end) == RFindFrom(s, ch, end, 0)

\* the characters str.strip() removes
Whitespace == {" ", "\n", "\t"}

RECURSIVE LStrip(_)
LStrip(s) ==
    IF s # <<>> /\ s[1][1] \in Whitespace THEN LStrip(Tail(s)) ELSE s

RECURSIVE RStrip(_)
RStrip(s) ==
    IF s # <<>> /\ s[Len(s)][1] \in Whitespace
    THEN RStrip(SubSeq(s, 1, Len(s) - 1))
    ELSE s

\* s.strip()
Strip(s) == LStrip(RStrip(s))

(***************************************************************************)
(* send_to_discord                                                         *)
(***************************************************************************)

\* the ceiling of line 181
CharLimit == 1900

\* "ðŸ“Š **Daily Portfolio Briefing**\n\n": the four characters the source
\* file holds in front of the title are written e1..e4 here
Banner ==
    Lit(<<"e1", "e2", "e3", "e4", " ", "*", "*",
          "D", "a", "i", "l", "y", " ",
          "P", "o", "r", "t", "f", "o", "l", "i", "o", " ",
          "B", "r", "i", "e", "f", "i", "n", "g", "*", "*", "\n", "\n">>)

\* "*(Continued...)*\n"
ContinuationMarker ==
    Lit(<<"*", "(", "C", "o", "n", "t", "i", "n", "u", "e", "d",
          ".", ".", ".", ")", "*", "\n">>)

Space == <<<<" ", 1>>>>

\* the characters of the lookbehind (?<=[.!?])
SentenceEnd == {".", "!", "?"}

\* run i of text is matched by (?<=[.!?]) +
IsSeparator(text, i) ==
    /\ i > 1
    /\ text[i][1] = " "
    /\ text[i - 1][1] \in SentenceEnd

\* re.split(r'(?<=[.!?]) +', text)
RECURSIVE SplitFrom(_, _, _)
SplitFrom(text, i, cur) ==
    IF i > Len(text) THEN <<cur>>
    ELSE IF IsSeparator(text, i)
         THEN <<cur>> \o SplitFrom(text, i + 1, <<>>)
         ELSE SplitFrom(text, i + 1, Append(cur, text[i]))

SplitSentences(text) == SplitFrom(text, 1, <<>>)

\* line 183 with the sentence that did not fit left out
ContinuedMessageWithoutSentence(sentence) == Cat(ContinuationMarker, Space)

\* the message opened when the running one is closed (line 183)
ContinuedMessage(sentence) == Cat(Cat(ContinuationMarker, sentence), Space)

\* the test of line 181
Overflows(current_message, sentence) ==
    StrLen(current_message) + StrLen(sentence) > CharLimit

\* the loop of lines 180-186
RECURSIVE Accumulate(_, _, _, _)
Accumulate(sentences, i, msgs, current_message) ==
    IF i > Len(sentences) THEN Append(msgs, Strip(current_message))
    ELSE IF Overflows(current_message, sentences[i])
         THEN Accumulate(sentences, i + 1,
                         Append(msgs, Strip(current_message)),
                         ContinuedMessage(sentences[i]))
         ELSE Accumulate(sentences, i + 1, msgs,
                         Cat(Cat(current_message, sentences[i]), Space))

\* lines 176-186: the messages send_to_discord builds for a brief
BuildMessages(text) == Accumulate(SplitSentences(text), 1, <<>>, Banner)

(***************************************************************************)
(* fetch_rss_headlines                                                     *)
(***************************************************************************)

\* two of the TICKERS of line 14
Tickers == <<Lit(<<"A", "A", "P", "L">>), Lit(<<"V", "T", "I">>)>>

TickerIdx == 1 .. Len(Tickers)

\* str(n) for n >= 0
DigitChar(d) == <<"0", "1", "2", "3", "4", "5", "6", "7", "8", "9">>[d + 1]

RECURSIVE Decimal(_)
Decimal(n) ==
    IF n < 10 THEN <<<<DigitChar(n), 1>>>>
    ELSE Cat(Decimal(n \div 10), <<<<DigitChar(n % 10), 1>>>>)

Underscore == <<<<"_", 1>>>>

\* line 51 with the ticker left out of the id
UniqueIdWithoutTicker(ticker, index) == Decimal(index)

\* f"{ticker}_{index}" (line 51)
UniqueId(ticker, index) == Cat(Cat(ticker, Underscore), Decimal(index))

\* A feed entry is [published, title, link]: published is "none" when the
\* entry has no published_parsed attribute, and otherwise the calendar date
\* line 47 computes from it, "today" (equal to today_date) or "other".
\* The entry at position index of a ticker's feed carries a title and a link
\* of its own.
EntryTitle(ticker, index) ==
    Cat(Cat(ticker, Lit(<<" ", "n", "e", "w", "s", " ">>)), Decimal(index))

EntryLink(ticker, index) ==
    Cat(Cat(Lit(<<"h", "t", "t", "p", ":", "/", "/">>), ticker),
        Cat(Lit(<<"/">>), Decimal(index)))

Published == {"none", "today", "other"}

Entry(t, index, published) ==
    [published |-> published,
     title |-> EntryTitle(Tickers[t], index),
     link |-> EntryLink(Tickers[t], index)]

\* the feed of ticker t whose entries are published as the sequence dates says
FeedOf(t, dates) == [i \in 1 .. Len(dates) |-> Entry(t, i - 1, dates[i])]

\* "key in d" for a dict kept as the sequence of its values, in insertion
\* order, each value carrying its key in the field id
HasKey(map, key) == \E i \in 1 .. Len(map) : map[i].id = key

KeyPos(map, key) == CHOOSE i \in 1 .. Len(map) : map[i].id = key

\* d[key]
Lookup(map, key) == map[KeyPos(map, key)]

\* d[key] = value: an existing key keeps its place
DictSet(map, key, value) ==
    IF HasKey(map, key)
    THEN [map EXCEPT ![KeyPos(map, key)] = value]
    ELSE Append(map, value)

\* list(d.keys())
Keys(map) == [i \in 1 .. Len(map) |-> map[i].id]

\* lines 41-58: one entry of a feed; index is enumerate's, from 0
AddEntry(map, ticker, index, entry) ==
    IF entry.published = "none" THEN map
    ELSE IF entry.published = "today"
         THEN DictSet(map, UniqueId(ticker, index),
                      [id |-> UniqueId(ticker, index),
                       ticker |-> ticker,
                       title |-> entry.title,
                       link |-> entry.link,
                       date_str |-> entry.published])
         ELSE map

\* line 40: the entries of one feed, in order
RECURSIVE AddEntries(_, _, _, _)
AddEntries(map, ticker, entries, i) ==
    IF i > Len(entries) THEN map
    ELSE AddEntries(AddEntry(map, ticker, i - 1, entries[i]),
                    ticker, entries, i + 1)

\* line 36: the tickers, in order
RECURSIVE AddFeeds(_, _, _)
AddFeeds(map, f, t) ==
    IF t > Len(Tickers) THEN map
    ELSE AddFeeds(AddEntries(map, Tickers[t], f[t], 1), f, t + 1)

\* fetch_rss_headlines(TICKERS), the feeds being f
FetchRssHeadlines(f) == AddFeeds(<<>>, f, 1)

(***************************************************************************)
(* identify_priority_stories                                               *)
(***************************************************************************)

\* Python values that are a list or None
PyNone == [kind |-> "None"]
PyList(items) == [kind |-> "list", items |-> items]

\* the 5 of the fallback slice (line 96)
FallbackCount == 5

\* a list's first k items: xs[:k]
FirstItems(xs, k) == SubSeq(xs, 1, IF Len(xs) < k THEN Len(xs) ELSE k)

\* line 96
FallbackIds(map) == FirstItems(Keys(map), FallbackCount)

\* lines 81-96.  response is what generate_content does: [kind |-> "raise"]
\* when the call raises, and otherwise [kind |-> "response", parsed |-> v]
\* with v the response's parsed attribute, a list of strings or None (the
\* attribute is None when the text is not the JSON the schema asks for).
IdentifyPriorityStories(map, response) ==
    IF response.kind = "raise" THEN PyList(FallbackIds(map))
    ELSE response.parsed

(***************************************************************************)
(* scrape_article_content and compile_news_brief                           *)
(***************************************************************************)

\* the 5000 of lines 110-112
MaxArticleChars == 5000

\* lines 110-112 with the period looked for in the whole text
TruncateArticleAtAnyPeriod(text) ==
    IF StrLen(text) > MaxArticleChars
    THEN LET cutoff == RFind(text, ".", StrLen(text))
         IN  IF cutoff # -1 THEN Take(text, cutoff + 1)
             ELSE Take(text, MaxArticleChars)
    ELSE text

\* lines 110-112
TruncateArticle(text) ==
    IF StrLen(text) > MaxArticleChars
    THEN LET cutoff == RFind(text, ".", MaxArticleChars)
         IN  IF cutoff # -1 THEN Take(text, cutoff + 1)
             ELSE Take(text, MaxArticleChars)
    ELSE text

\* lines 104-116.  extraction is what download and parse do:
\* [kind |-> "raise"] or [kind |-> "text", text |-> article.text]
ScrapeArticleContent(extraction) ==
    IF extraction.kind = "raise" THEN <<>>
    ELSE TruncateArticle(extraction.text)

\* the extraction of a story's link: the articles linked from one ticker's
\* feed behave alike
ExtractionOf(w, story) == w[story.ticker]

\* lines 130-133
Block(story, text) ==
    Cat(Cat(Cat(Lit(<<"\n", "[", "S", "T", "O", "C", "K", ":", " ">>),
                story.ticker),
            Cat(Lit(<<"]", " ", "T", "I", "T", "L", "E", ":", " ">>),
                story.title)),
        Cat(Cat(Lit(<<"\n", "C", "O", "N", "T", "E", "N", "T", ":", " ">>),
                text),
            Lit(<<"\n">>)))

\* lines 123-133 without the test of line 129
AddStoryKeepingEmpty(full_context, item_id, map, w) ==
    IF ~HasKey(map, item_id) THEN full_context
    ELSE LET story == Lookup(map, item_id)
             text == ScrapeArticleContent(ExtractionOf(w, story))
         IN  Cat(full_context, Block(story, text))

\* lines 123-133: one id of the priority list
AddStory(full_context, item_id, map, w) ==
    IF ~HasKey(map, item_id) THEN full_context
    ELSE LET story == Lookup(map, item_id)
             text == ScrapeArticleContent(ExtractionOf(w, story))
         IN  IF text # <<>> THEN Cat(full_context, Block(story, text))
             ELSE full_context

\* line 122
RECURSIVE CompileFrom(_, _, _, _, _)
CompileFrom(ids, i, map, w, full_context) ==
    IF i > Len(ids) THEN full_context
    ELSE CompileFrom(ids, i + 1, map, w,
                     AddStory(full_context, ids[i], map, w))

\* compile_news_brief(priority_ids, headline_map) for a list priority_ids
CompileNewsBrief(ids, map, w) == CompileFrom(ids, 1, map, w, <<>>)

\* the links handed to scrape_article_content along the way (line 127)
RECURSIVE ScrapedLinks(_, _, _)
ScrapedLinks(ids, i, map) ==
    IF i > Len(ids) THEN <<>>
    ELSE IF HasKey(map, ids[i])
         THEN <<Lookup(map, ids[i]).link>> \o ScrapedLinks(ids, i + 1, map)
         ELSE ScrapedLinks(ids, i + 1, map)

(***************************************************************************)
(* generate_discord_summary                                                *)
(***************************************************************************)

\* "Something went wrong... no stock news summary today!" (line 167)
Apology ==
    Lit(<<"S", "o", "m", "e", "t", "h", "i", "n", "g", " ",
          "w", "e", "n", "t", " ", "w", "r", "o", "n", "g", ".", ".", ".", " ",
          "n", "o", " ", "s", "t", "o", "c", "k", " ", "n", "e", "w", "s", " ",
          "s", "u", "m", "m", "a", "r", "y", " ",
          "t", "o", "d", "a", "y", "!">>)

\* lines 156-167.  response is [kind |-> "raise"] or
\* [kind |-> "response", text |-> response.text]
GenerateDiscordSummary(response) ==
    IF response.kind = "raise" THEN Apology ELSE response.text

\* the message of line 209; its first four characters are written f1..f4
NoNewsMessage ==
    Lit(<<"f1", "f2", "f3", "f4", " ", "N", "o", " ",
          "s", "i", "g", "n", "i", "f", "i", "c", "a", "n", "t", " ",
          "m", "a", "r", "k", "e", "t", "-", "m", "o", "v", "i", "n", "g", " ",
          "n", "e", "w", "s", " ", "f", "o", "u", "n", "d", " ",
          "t", "o", "d", "a", "y", ".">>)

(***************************************************************************)
(* Inputs: what the feeds, the language model and the web may answer       *)
(***************************************************************************)

\* entries of one feed in any run of the collector alone
MaxEntries == 2

\* entries dated today in one feed of a whole run
MaxToday == 3

\* ids in the longest answer of the selection model
MaxAnswer == 11

\* pieces (word, terminator, gap) of a brief or of an article text
MaxPieces == 2

RECURSIVE SeqsOfLen(_, _)
SeqsOfLen(S, k) ==
    IF k = 0 THEN {<<>>}
    ELSE {Append(q, x) : q \in SeqsOfLen(S, k - 1), x \in S}

SeqsUpTo(S, k) == UNION {SeqsOfLen(S, j) : j \in 0 .. k}

\* every feed of at most MaxEntries entries, for every ticker
AllFeeds ==
    {[t \in TickerIdx |-> FeedOf(t, d[t])] :
        d \in [TickerIdx -> SeqsUpTo(Published, MaxEntries)]}

\* feeds of a whole run: at most one entry that does not qualify, then
\* entries dated today
MainDates ==
    {lead \o [i \in 1 .. c |-> "today"] :
        lead \in {<<>>, <<"none">>, <<"other">>}, c \in 0 .. MaxToday}

MainFeeds ==
    {[t \in TickerIdx |-> FeedOf(t, d[t])] : d \in [TickerIdx -> MainDates]}

\* an id no feed produces
BogusId == Lit(<<"N", "V", "D", "A", "_", "0">>)

Reverse(xs) == [i \in 1 .. Len(xs) |-> xs[Len(xs) + 1 - i]]

\* k ids taken round and round from xs
Cycle(xs, k) == [i \in 1 .. k |-> xs[((i - 1) % Len(xs)) + 1]]

\* answers of the selection model for a catalog with keys ks
Answers(ks) ==
    {<<>>, <<BogusId>>, Reverse(ks), Cycle(Append(ks, BogusId), MaxAnswer)}
    \cup (IF ks = <<>> THEN {}
          ELSE {<<ks[1], BogusId, ks[Len(ks)], ks[1]>>})

SelectResponses(map) ==
    {[kind |-> "raise"], [kind |-> "response", parsed |-> PyNone]}
    \cup {[kind |-> "response", parsed |-> PyList(a)] : a \in Answers(Keys(map))}

\* a character repeated: c * n
Rep(c, n) == IF n = 0 THEN <<>> ELSE <<<<c, n>>>>

\* texts made of at most k pieces, each a word of "a", a terminator and a gap
Pieces(wordLengths, terminators, gaps) ==
    {Cat(Cat(Rep("a", n), t), g) :
        n \in wordLengths, t \in terminators, g \in gaps}

RECURSIVE TextsOfPieces(_, _)
TextsOfPieces(P, k) ==
    IF k = 0 THEN {<<>>}
    ELSE LET shorter == TextsOfPieces(P, k - 1)
         IN  shorter \cup {Cat(x, y) : x \in shorter, y \in P}

\* briefs handed to send_to_discord
BriefTexts ==
    TextsOfPieces(
        Pieces({0, 1, 1864, 1990},
               {<<>>, Lit(<<".">>), Lit(<<"?">>)},
               {<<>>, Lit(<<" ">>), Lit(<<" ", " ">>), Lit(<<"\n">>)}),
        MaxPieces)

\* article texts extracted by newspaper
ArticleTexts ==
    TextsOfPieces(
        Pieces({0, 1, 4999, 5000},
               {<<>>, Lit(<<".">>), Lit(<<".", ".">>)},
               {<<>>, Lit(<<" ">>)}),
        MaxPieces)

Extractions ==
    {[kind |-> "raise"]} \cup {[kind |-> "text", text |-> x] : x \in ArticleTexts}

\* the web of a whole run: per ticker, the articles fail, are short, are
\* empty, or are longer than scrape_article_content keeps
MainExtractions ==
    {[kind |-> "raise"],
     [kind |-> "text", text |-> <<>>],
     [kind |-> "text", text |-> Lit(<<"U", "p", ".">>)],
     [kind |-> "text", text |-> <<<<"w", 3000>>, <<".", 1>>, <<"w", 3000>>>>]}

TickerSet == {Tickers[t] : t \in TickerIdx}

Webs == [TickerSet -> MainExtractions]

\* answers of the summarization model in a whole run: a brief of two
\* sentences that do not fit one message
MainBriefs ==
    {<<<<"x", 1890>>, <<".", 1>>, <<" ", 2>>, <<"y", 1>>, <<".", 1>>>>}

SummaryResponses ==
    {[kind |-> "raise"]} \cup {[kind |-> "response", text |-> x] : x \in MainBriefs}

(***************************************************************************)
(* main                                                                    *)
(***************************************************************************)

\* line 197 with the test left out
NoHeadlinesIgnored(map) == FALSE

\* "if not headlines_map" (line 197)
NoHeadlines(map) == map = <<>>

\* "if not context_data" (line 208)
NoContext(full_context) == full_context = <<>>

\* "if not DISCORD_WEBHOOK_URL" (line 171)
NoWebhook(url) == url = "unset"

\* requests.post(url, ...) raises MissingSchema for a url that is None, and
\* nothing is sent
PostRaises(url) == url = "unset"

Init ==
    /\ pc = "start"
    /\ webhook \in {"unset", "url"}
    /\ feeds = <<>>
    /\ web = <<>>
    /\ headline_map = <<>>
    /\ priority_ids = PyList(<<>>)
    /\ context_data = <<>>
    /\ final_summary = <<>>
    /\ messages = <<>>
    /\ posts = <<>>
    /\ llm_calls = <<>>
    /\ scrapes = <<>>
    /\ article = [kind |-> "raise"]
    /\ content = <<>>

\* lines 196-199 for the feeds f
FetchStep(f) ==
    /\ pc = "start"
    /\ feeds' = f
    /\ headline_map' = FetchRssHeadlines(f)
    /\ pc' = IF NoHeadlines(headline_map') THEN "done" ELSE "fetched"
    /\ UNCHANGED <<webhook, web, priority_ids, context_data, final_summary,
                   messages, posts, llm_calls, scrapes, article, content>>

Fetch == \E f \in MainFeeds : FetchStep(f)

FetchAny == \E f \in AllFeeds : FetchStep(f)

\* lines 202-203
Identify ==
    /\ pc = "fetched"
    /\ \E r \in SelectResponses(headline_map) :
           /\ priority_ids' = IdentifyPriorityStories(headline_map, r)
           /\ llm_calls' = Append(llm_calls, [call |-> "select", response |-> r])
    /\ pc' = "selected"
    /\ UNCHANGED <<webhook, feeds, web, headline_map, context_data,
                   final_summary, messages, posts, scrapes, article, content>>

\* line 206, the priority list being a list
Compile ==
    /\ pc = "selected"
    /\ priority_ids.kind = "list"
    /\ \E w \in Webs :
           /\ web' = w
           /\ context_data' =
                  CompileNewsBrief(priority_ids.items, headline_map, w)
    /\ scrapes' = ScrapedLinks(priority_ids.items, 1, headline_map)
    /\ pc' = "compiled"
    /\ UNCHANGED <<webhook, feeds, headline_map, priority_ids, final_summary,
                   messages, posts, llm_calls, article, content>>

\* line 206 and line 122, the priority list being None: "for item_id in None"
\* raises TypeError, which nothing catches
CompileRaises ==
    /\ pc = "selected"
    /\ priority_ids.kind = "None"
    /\ pc' = "TypeError"
    /\ UNCHANGED <<webhook, feeds, web, headline_map, priority_ids,
                   context_data, final_summary, messages, posts, llm_calls,
                   scrapes, article, content>>

\* lines 208-210
NotifyNoNews ==
    /\ pc = "compiled"
    /\ NoContext(context_data)
    /\ posts' = Append(posts, [url |-> webhook, content |-> NoNewsMessage])
    /\ pc' = IF PostRaises(webhook) THEN "MissingSchema" ELSE "done"
    /\ UNCHANGED <<webhook, feeds, web, headline_map, priority_ids,
                   context_data, final_summary, messages, llm_calls, scrapes,
                   article, content>>

\* lines 213-214
Summarize ==
    /\ pc = "compiled"
    /\ ~NoContext(context_data)
    /\ \E r \in SummaryResponses :
           /\ final_summary' = GenerateDiscordSummary(r)
           /\ llm_calls' =
                  Append(llm_calls, [call |-> "summarize", response |-> r])
    /\ pc' = "summarized"
    /\ UNCHANGED <<webhook, feeds, web, headline_map, priority_ids,
                   context_data, messages, posts, scrapes, article, content>>

\* line 217, lines 171-186: send_to_discord up to its list of messages
SendToDiscord ==
    /\ pc = "summarized"
    /\ IF NoWebhook(webhook)
       THEN /\ pc' = "done"
            /\ UNCHANGED messages
       ELSE /\ messages' = BuildMessages(final_summary)
            /\ pc' = "posting"
    /\ UNCHANGED <<webhook, feeds, web, headline_map, priority_ids,
                   context_data, final_summary, posts, llm_calls, scrapes,
                   article, content>>

\* lines 188-190: one turn of the posting loop; after the last one
\* send_to_discord returns and main ends (line 218)
PostMessage ==
    /\ pc = "posting"
    /\ Len(posts) < Len(messages)
    /\ posts' = Append(posts, [url |-> webhook,
                               content |-> messages[Len(posts) + 1]])
    /\ pc' = IF Len(posts') = Len(messages) THEN "done" ELSE "posting"
    /\ UNCHANGED <<webhook, feeds, web, headline_map, priority_ids,
                   context_data, final_summary, messages, llm_calls, scrapes,
                   article, content>>

Next ==
    \/ Fetch
    \/ Identify
    \/ Compile
    \/ CompileRaises
    \/ NotifyNoNews
    \/ Summarize
    \/ SendToDiscord
    \/ PostMessage

\* a whole run of main
Spec == Init /\ [][Next]_vars

(***************************************************************************)
(* The collector alone, over every feed                                    *)
(***************************************************************************)

NextFetch == FetchAny

SpecFetch == Init /\ [][NextFetch]_vars

(***************************************************************************)
(* send_to_discord alone, a webhook being configured, over every brief     *)
(***************************************************************************)

InitSend ==
    /\ pc = "summarized"
    /\ webhook = "url"
    /\ final_summary \in BriefTexts
    /\ feeds = <<>>
    /\ web = <<>>
    /\ headline_map = <<>>
    /\ priority_ids = PyList(<<>>)
    /\ context_data = <<>>
    /\ messages = <<>>
    /\ posts = <<>>
    /\ llm_calls = <<>>
    /\ scrapes = <<>>
    /\ article = [kind |-> "raise"]
    /\ content = <<>>

NextSend == SendToDiscord \/ PostMessage

SpecSend == InitSend /\ [][NextSend]_vars

(***************************************************************************)
(* scrape_article_content alone, over every extraction                     *)
(***************************************************************************)

InitScrape ==
    /\ pc = "scrape"
    /\ article \in Extractions
    /\ webhook = "unset"
    /\ feeds = <<>>
    /\ web = <<>>
    /\ headline_map = <<>>
    /\ priority_ids = PyList(<<>>)
    /\ context_data = <<>>
    /\ final_summary = <<>>
    /\ messages = <<>>
    /\ posts = <<>>
    /\ llm_calls = <<>>
    /\ scrapes = <<>>
    /\ content = <<>>

\* lines 98-116
Scrape ==
    /\ pc = "scrape"
    /\ content' = ScrapeArticleContent(article)
    /\ pc' = "scraped"
    /\ UNCHANGED <<webhook, feeds, web, headline_map, priority_ids,
                   context_data, final_summary, messages, posts, llm_calls,
                   scrapes, article>>

NextScrape == Scrape

SpecScrape == InitScrape /\ [][NextScrape]_vars

(***************************************************************************)
(* Properties                                                              *)
(***************************************************************************)

Summarized == \E i \in 1 .. Len(llm_calls) : llm_calls[i].call = "summarize"

\* C1: every message posted to the webhook, banner or continuation marker
\* included, is at most 1900 characters long.
C1_PostsWithinLimit ==
    \A i \in 1 .. Len(posts) : StrLen(posts[i].content) <= 1900

\* C2: with no webhook URL configured no post is attempted and no unhandled
\* error ends the run at a notification step.
C2_NoWebhookNoPostNoError ==
    webhook = "unset" => (posts = <<>> /\ pc # "MissingSchema")

\* the selection model's call failed: it raised, or its output did not parse
SelectFailed ==
    /\ llm_calls # <<>>
    /\ LET r == llm_calls[1].response
       IN  IF r.kind = "raise" THEN TRUE ELSE r.parsed.kind = "None"

\* C3: when the selection model's call fails or returns unparseable output,
\* identify_priority_stories returns the first 5 keys of the catalog in
\* insertion order (all of them when there are fewer), and the run goes on to
\* the compiler with that list.
C3_FallbackOnFailure ==
    SelectFailed =>
        /\ priority_ids.kind = "list"
        /\ LET ks == Keys(headline_map)
               k == IF Len(ks) < 5 THEN Len(ks) ELSE 5
           IN  priority_ids.items = SubSeq(ks, 1, k)
        /\ pc # "TypeError"

\* C4: whatever the selection model answers, identify_priority_stories
\* returns a list of at most 10 ids.
C4_AtMostTenIds ==
    (pc = "selected" /\ priority_ids.kind = "list")
        => Len(priority_ids.items) <= 10

\* compile_news_brief has returned an empty blob for a catalog that is not
\* empty, and main has taken its next step
EmptyBlobHandled ==
    /\ pc \in {"summarized", "posting", "done", "MissingSchema"}
    /\ headline_map # <<>>
    /\ context_data = <<>>

\* C5: when the catalog is not empty and the compiled blob is empty, the
\* summarizer is never invoked, exactly one fixed fallback message is posted
\* to the webhook, and the run ends.
C5_EmptyBlobOneFallbackPost ==
    EmptyBlobHandled =>
        /\ ~Summarized
        /\ posts = <<[url |-> "url", content |-> NoNewsMessage]>>
        /\ pc = "done"

\* C6: when fetch_rss_headlines returns an empty catalog the run ends at
\* once: no language-model call, no scrape, no webhook post.
C6_EmptyCatalogEndsRun ==
    (pc # "start" /\ headline_map = <<>>) =>
        /\ pc = "done"
        /\ llm_calls = <<>>
        /\ scrapes = <<>>
        /\ posts = <<>>

C6_Witness ==
    /\ pc = "done"
    /\ headline_map = <<>>
    /\ \E t \in TickerIdx : feeds[t] # <<>>

\* the prefix send_to_discord puts in front of message k
PrefixOf(k) == IF k = 1 THEN Banner ELSE ContinuationMarker

\* message m without its prefix p (without what strip() left of p when the
\* message holds nothing else)
WithoutPrefix(m, p) ==
    IF Take(m, StrLen(p)) = p THEN Drop(m, StrLen(p))
    ELSE IF m = Strip(p) THEN <<>>
    ELSE m

RECURSIVE JoinBodies(_, _)
JoinBodies(ps, k) ==
    IF k > Len(ps) THEN <<>>
    ELSE Cat(WithoutPrefix(ps[k].content, PrefixOf(k)), JoinBodies(ps, k + 1))

\* send_to_discord has returned after posting its messages
AllPosted == pc = "done" /\ posts # <<>>

\* C7 as stated: the posted messages, banner and continuation markers
\* removed, concatenate to the original brief text.
C7_ReproducesBrief ==
    AllPosted => JoinBodies(posts, 1) = final_summary

\* s without its whitespace characters
RECURSIVE Unspaced(_)
Unspaced(s) ==
    IF s = <<>> THEN <<>>
    ELSE IF s[1][1] \in Whitespace THEN Unspaced(Tail(s))
    ELSE Cat(<<s[1]>>, Unspaced(Tail(s)))

\* the sentences i of ss with g[i] = k, each followed by one space
RECURSIVE GroupText(_, _, _, _)
GroupText(ss, g, k, i) ==
    IF i > Len(ss) THEN <<>>
    ELSE IF g[i] = k
         THEN Cat(Cat(ss[i], <<<<" ", 1>>>>), GroupText(ss, g, k, i + 1))
         ELSE GroupText(ss, g, k, i + 1)

RECURSIVE UnspacedBodies(_, _)
UnspacedBodies(ps, k) ==
    IF k > Len(ps) THEN <<>>
    ELSE Cat(Drop(Unspaced(ps[k].content), StrLen(Unspaced(PrefixOf(k)))),
             UnspacedBodies(ps, k + 1))

\* C7 amended: every posted message is its prefix (the banner for the first,
\* the continuation marker for the others) followed by a group of consecutive
\* whole sentences, each followed by one space, the whole stripped of leading
\* and trailing whitespace; the groups, in posting order, hold every sentence
\* once and in order.  Hence the messages without their prefixes reproduce the
\* characters of the brief that are not whitespace, in order.
C7_SentencesKeptWhole ==
    AllPosted =>
        LET ss == SplitSentences(final_summary)
            n == Len(posts)
        IN  /\ \E g \in [1 .. Len(ss) -> 1 .. n] :
                   /\ \A i \in 1 .. Len(ss) - 1 : g[i] <= g[i + 1]
                   /\ \A k \in 1 .. n :
                          posts[k].content =
                              Strip(Cat(PrefixOf(k), GroupText(ss, g, k, 1)))
            /\ \A k \in 1 .. n :
                   Take(Unspaced(posts[k].content),
                        StrLen(Unspaced(PrefixOf(k)))) = Unspaced(PrefixOf(k))
            /\ UnspacedBodies(posts, 1) = Unspaced(final_summary)

C7_Witness ==
    /\ AllPosted
    /\ Len(posts) >= 2
    /\ Len(SplitSentences(final_summary)) >= 2
    /\ JoinBodies(posts, 1) # final_summary

\* the entries of a feed that have a publish timestamp and are dated today
RECURSIVE Qualifying(_)
Qualifying(entries) ==
    IF entries = <<>> THEN <<>>
    ELSE IF Head(entries).published = "today"
         THEN <<Head(entries)>> \o Qualifying(Tail(entries))
         ELSE Qualifying(Tail(entries))

RECURSIVE QualifyingCount(_)
QualifyingCount(t) ==
    IF t > Len(Tickers) THEN 0
    ELSE Len(Qualifying(feeds[t])) + QualifyingCount(t + 1)

\* the id "{ticker}_{n}"
IdText(t, n) == Cat(Cat(Tickers[t], <<<<"_", 1>>>>), Decimal(n))

\* the catalog holds entry e of ticker t under the id "{ticker}_{n}"
HoldsUnder(t, n, e) ==
    \E i \in 1 .. Len(headline_map) :
        /\ headline_map[i].id = IdText(t, n)
        /\ headline_map[i].ticker = Tickers[t]
        /\ headline_map[i].title = e.title
        /\ headline_map[i].link = e.link

UniqueIds ==
    \A i, j \in 1 .. Len(headline_map) :
        i # j => headline_map[i].id # headline_map[j].id

Fetched == pc # "start"

\* C8 as stated: ids are unique, the catalog has one record per qualifying
\* entry, and the index-th qualifying entry of a ticker (counted from 0, as
\* enumerate does) has the id "{ticker}_{index}".
C8_IdOfQualifyingRank ==
    Fetched =>
        /\ UniqueIds
        /\ Len(headline_map) = QualifyingCount(1)
        /\ \A t \in TickerIdx :
               \A k \in 1 .. Len(Qualifying(feeds[t])) :
                   HoldsUnder(t, k - 1, Qualifying(feeds[t])[k])

\* C8 amended: ids are unique, the catalog has one record per qualifying
\* entry, and a qualifying entry has the id "{ticker}_{index}" where index is
\* its position in the ticker's feed, counted from 0 over all the entries of
\* the feed, qualifying or not.
C8_IdOfFeedPosition ==
    Fetched =>
        /\ UniqueIds
        /\ Len(headline_map) = QualifyingCount(1)
        /\ \A t \in TickerIdx :
               \A i \in 1 .. Len(feeds[t]) :
                   feeds[t][i].published = "today"
                       => HoldsUnder(t, i - 1, feeds[t][i])

C8_Witness ==
    /\ Fetched
    /\ \A t \in TickerIdx :
           /\ Len(feeds[t]) >= 2
           /\ feeds[t][1].published # "today"
           /\ feeds[t][2].published = "today"

\* the text scrape_article_content returns for the id at position i
ScrapedText(i) ==
    ScrapeArticleContent(web[Lookup(headline_map, priority_ids.items[i]).ticker])

\* position i of the priority list contributes a block
Contributes(i) ==
    /\ HasKey(headline_map, priority_ids.items[i])
    /\ ScrapedText(i) # <<>>

RECURSIVE BlocksFrom(_)
BlocksFrom(i) ==
    IF i > Len(priority_ids.items) THEN <<>>
    ELSE IF Contributes(i)
         THEN Cat(Block(Lookup(headline_map, priority_ids.items[i]),
                        ScrapedText(i)),
                  BlocksFrom(i + 1))
         ELSE BlocksFrom(i + 1)

CompileReturned ==
    pc \in {"compiled", "summarized", "posting", "done", "MissingSchema"}
    /\ llm_calls # <<>>

\* C9: compile_news_brief raises no error for a priority list (the run ends
\* in its TypeError only when it is handed None) and returns the blocks of the
\* list positions whose id is a catalog key and whose scrape returned text, in
\* the order of the list; unknown ids and failed scrapes contribute nothing.
C9_BlobIsBlocksInOrder ==
    /\ pc = "TypeError" => priority_ids.kind = "None"
    /\ CompileReturned => context_data = BlocksFrom(1)

C9_Witness ==
    /\ pc = "compiled"
    /\ context_data # <<>>
    /\ \E i, j, k \in 1 .. Len(priority_ids.items) :
           /\ i < j
           /\ j < k
           /\ ~HasKey(headline_map, priority_ids.items[i])
           /\ HasKey(headline_map, priority_ids.items[j])
           /\ ScrapedText(j) = <<>>
           /\ Contributes(k)

Contains(s, ch) == \E i \in 1 .. Len(s) : s[i][1] = ch

\* C10: a text of more than 5000 characters is cut to the prefix that ends
\* with the last period among its first 5000 characters, or to its first 5000
\* characters when these hold no period; a shorter text is returned unchanged.
C10_TruncatedAtLastPeriod ==
    (pc = "scraped" /\ article.kind = "text") =>
        LET text == article.text
            first == Take(text, 5000)
        IN  IF StrLen(text) <= 5000 THEN content = text
            ELSE /\ StrLen(content) <= 5000
                 /\ content = Take(text, StrLen(content))
                 /\ IF Contains(first, ".")
                    THEN /\ content # <<>>
                         /\ content[Len(content)][1] = "."
                         /\ ~Contains(Drop(first, StrLen(content)), ".")
                    ELSE content = first

C10_Witness ==
    /\ pc = "scraped"
    /\ article.kind = "text"
    /\ StrLen(article.text) > 5000
    /\ Contains(Drop(article.text, 5000), ".")
    /\ StrLen(content) < 5000
    /\ StrLen(content) > 1

====
